---------------------------- MODULE Spec2Model ----------------------------
(***************************************************************************)
(* Model of the bear-sighting pipeline of scraping_and_processing.py and   *)
(* of the reader load_and_process_data of app.py.                          *)
(*                                                                         *)
(* Text is modelled as a sequence of characters, each character being a    *)
(* TLA+ string that names its code point ("u5E02" is 市).  A date fragment  *)
(* is modelled as a sequence of integer tokens: a non-negative token is a  *)
(* maximal run of decimal digits (its value), a negative token is one      *)
(* non-digit character.                                                    *)
(***************************************************************************)
EXTENDS Integers, Sequences, FiniteSets, TLC

VARIABLES
    \* ---- Date Normalizer harness (convert_date) ----
    date_str,       \* the argument of convert_date
    date_out,       \* its result, or Pending
    \* ---- Address Cleaner harness (clean_address) ----
    addr_in,        \* the argument pair <<city, location>>
    addr_once,      \* clean_address(addr_in), or <<>> before the call
    addr_twice,     \* clean_address(addr_once), or <<>> before the call
    \* ---- Geocode lookup harness (lookup_coords, one row of add_coords_from_cache) ----
    geo_dict,       \* the value yaml.safe_load returned
    row,            \* the record [prefecture, city, location] looked up
    lk_out,         \* outcome of lookup_coords(pref, city, area, geo_dict)
    row_out,        \* outcome of the loop body of add_coords_from_cache for row
    \* ---- the pipeline run (main) and the files it shares with the dashboard ----
    pc,             \* position of main
    run,            \* number of runs started
    pdf,            \* kuma_r6_<source>.pdf, per source
    json,           \* bear_sightings_<source>.json, per source
    yaml,           \* areas_with_coords.yml
    combined,       \* bear_sightings_combined.csv
    df,             \* the DataFrame held by main
    final,          \* bear_sightings_with_coords.csv, as a reader sees it
    hist,           \* history variables of the current run (not program state)
    \* ---- the three parse steps run as parallel tasks ----
    tpc,            \* position of each task
    tbuf,           \* what each task read from its PDF
    json0,          \* the per-source JSON files when the tasks were started
    \* ---- one line of a bulletin (parse_kanagawa_pdf, parse_yamanashi_pdf) ----
    line,           \* a text line of the PDF
    rec_out         \* the sightings the loop body appended for it, or Pending

dvars == <<date_str, date_out>>
cvars == <<addr_in, addr_once, addr_twice>>
lvars == <<geo_dict, row, lk_out, row_out>>
rvars == <<pc, run, pdf, json, yaml, combined, df, final, hist>>
pvars == <<tpc, tbuf, json0>>
kvars == <<line, rec_out>>
vars  == <<date_str, date_out, addr_in, addr_once, addr_twice,
           geo_dict, row, lk_out, row_out,
           pc, run, pdf, json, yaml, combined, df, final, hist,
           tpc, tbuf, json0, line, rec_out>>

-----------------------------------------------------------------------------
(* Generic helpers on sequences *)

Range(s) == {s[i] : i \in 1..Len(s)}

SeqsUpTo(S, n) == UNION {[1..k -> S] : k \in 0..n}

Drop(s, k) == SubSeq(s, k + 1, Len(s))

Take(s, k) == SubSeq(s, 1, k)


-----------------------------------------------------------------------------
(* Outcome of a call: a returned value or a raised exception *)

Returned(v) == [st |-> "returned", exc |-> "", val |-> v]

Raise(e, v) == [st |-> "raised", exc |-> e, val |-> v]

-----------------------------------------------------------------------------
(***************************************************************************)
(* Date Normalizer: convert_date                                           *)
(***************************************************************************)

\* the non-digit characters of a date fragment
Slash == -1     \* '/'
Nen   == -2     \* 年
Gatsu == -3     \* 月
Nichi == -4     \* 日
Koro  == -5     \* 頃, standing for any character that is none of the above

\* pd.NaT, and a calendar date <<year, month, day>>
NaT == <<0, 0, 0>>

\* A date that pandas chose for a digits-and-slashes text that is not of the
\* form YYYY/M/D; which date it is depends on the pandas/dateutil version.
LibDate == <<-1, -1, -1>>

current_year == 2024

IsDigits(t) == t >= 0

RECURSIVE NumDigits(_)
NumDigits(n) == IF n < 10 THEN 1 ELSE 1 + NumDigits(n \div 10)

RECURSIVE Pow10(_)
Pow10(k) == IF k = 0 THEN 1 ELSE 10 * Pow10(k - 1)

\* string concatenation on token sequences: two digit runs that meet become one
Concat(a, b) ==
    IF a = <<>> THEN b
    ELSE IF b = <<>> THEN a
    ELSE IF IsDigits(a[Len(a)]) /\ IsDigits(b[1])
         THEN Take(a, Len(a) - 1)
              \o <<a[Len(a)] * Pow10(NumDigits(b[1])) + b[1]>>
              \o Drop(b, 1)
         ELSE a \o b

\* str.replace(c, to) for single characters c and to
ReplaceChar(s, c, to) == [i \in 1..Len(s) |-> IF s[i] = c THEN to ELSE s[i]]

\* str.replace(c, '') for a single character c
RECURSIVE RemoveChar(_, _)
RemoveChar(s, c) ==
    IF s = <<>> THEN <<>>
    ELSE IF s[1] = c THEN RemoveChar(Drop(s, 1), c)
    ELSE Concat(<<s[1]>>, RemoveChar(Drop(s, 1), c))

IsLeap(y) == (y % 4 = 0 /\ y % 100 # 0) \/ y % 400 = 0

DaysInMonth(y, m) ==
    IF m = 2 THEN (IF IsLeap(y) THEN 29 ELSE 28)
    ELSE IF m \in {4, 6, 9, 11} THEN 30 ELSE 31

ValidYMD(y, m, d) == m \in 1..12 /\ d >= 1 /\ d <= DaysInMonth(y, m)

DateLess(a, b) ==
    \/ a[1] < b[1]
    \/ a[1] = b[1] /\ a[2] < b[2]
    \/ a[1] = b[1] /\ a[2] = b[2] /\ a[3] < b[3]

\* pd.Timestamp is a signed 64-bit count of nanoseconds since 1970-01-01:
\* Timestamp.min is 1677-09-21 00:12:43.1, Timestamp.max is 2262-04-11 23:47:16.8,
\* so midnight of a day is representable from 1677-09-22 to 2262-04-11.
TimestampMinDay == <<1677, 9, 22>>
TimestampMaxDay == <<2262, 4, 11>>

InTimestampRange(d) == ~DateLess(d, TimestampMinDay) /\ ~DateLess(TimestampMaxDay, d)

\* the text is YYYY/M/D: a four-digit year, a slash, digits, a slash, digits
IsYMD(s) ==
    /\ Len(s) = 5
    /\ s[1] >= 1000 /\ s[1] <= 9999
    /\ s[2] = Slash /\ IsDigits(s[3]) /\ s[4] = Slash /\ IsDigits(s[5])

HasLetters(s) == \E i \in 1..Len(s) : s[i] \in {Nen, Gatsu, Nichi, Koro}

\* what errors='raise' would do with a parse failure
coerce_raise(e) == Raise(e, NaT)

\* what errors='coerce' turns a parse failure into
coerce(e) == Returned(NaT)

\* pd.to_datetime(s, errors='coerce') on one string: the set of its possible outcomes
to_datetime(s) ==
    IF IsYMD(s)
    THEN IF ~ValidYMD(s[1], s[3], s[5]) THEN {coerce("ValueError")}
         ELSE IF ~InTimestampRange(<<s[1], s[3], s[5]>>) THEN {coerce("OutOfBoundsDatetime")}
         ELSE {Returned(<<s[1], s[3], s[5]>>)}
    ELSE IF HasLetters(s) THEN {coerce("ValueError")}
    ELSE {coerce("ValueError"), Returned(LibDate)}

\* a rewrite that turns the day marker into a slash instead of deleting it
date_str_mod_day_slash(year, date_str_) ==
    ReplaceChar(ReplaceChar(ReplaceChar(Concat(<<year, Nen>>, date_str_),
                                        Nen, Slash), Gatsu, Slash), Nichi, Slash)

\* date_str_mod of convert_date: f"{current_year}年{date_str}" with 年 and 月
\* replaced by '/' and 日 deleted
date_str_mod(year, date_str_) ==
    RemoveChar(ReplaceChar(ReplaceChar(Concat(<<year, Nen>>, date_str_),
                                       Nen, Slash), Gatsu, Slash), Nichi)


convert_date(date_str_) ==
    IF date_str_ = <<>> THEN {Returned(NaT)}
    ELSE IF Slash \in Range(date_str_) THEN to_datetime(date_str_)
    ELSE IF Gatsu \in Range(date_str_) /\ Nichi \in Range(date_str_)
         THEN to_datetime(date_str_mod(current_year, date_str_))
    ELSE {Returned(NaT)}

-----------------------------------------------------------------------------
(* Harness of the Date Normalizer *)

MaxTok   == 4       \* longest free-form fragment, in tokens
MaxMonth == 13      \* largest month number tried
MaxDay   == 32      \* largest day number tried

DateToks == {1, 9, 2024, Slash, Gatsu, Nichi, Koro}

Years == {1677, 2023, 2024, 2262, 2263}

\* a text is tokenised into maximal digit runs: no two digit tokens are adjacent
WellTokenised(s) == \A i \in 1..(Len(s) - 1) : ~(IsDigits(s[i]) /\ IsDigits(s[i + 1]))

SlashForm(y, m, d) == <<y, Slash, m, Slash, d>>

MonthDayForm(m, d) == <<m, Gatsu, d, Nichi>>

DateStrs ==
    {s \in SeqsUpTo(DateToks, MaxTok) : WellTokenised(s)}
    \cup {SlashForm(y, m, d) : y \in Years, m \in 0..MaxMonth, d \in 0..MaxDay}
    \cup {MonthDayForm(m, d) : m \in 0..MaxMonth, d \in 0..MaxDay}

PendingDate == [st |-> "pending", exc |-> "", val |-> NaT]

IdleDate == date_str = <<>> /\ date_out = PendingDate

InitDate == date_str \in DateStrs /\ date_out = PendingDate

ConvertDate ==
    /\ date_out.st = "pending"
    /\ date_out' \in convert_date(date_str)
    /\ UNCHANGED date_str

-----------------------------------------------------------------------------
(***************************************************************************)
(* Text: characters, and the str methods the pipeline uses                 *)
(***************************************************************************)

SP      == "u0020"  \* ' '
Shi     == "u5E02"  \* 市
Machi   == "u753A"  \* 町
Mura    == "u6751"  \* 村
Midori  == "u7DD1"  \* 緑
Ku      == "u533A"  \* 区
Nakaten == "u30FB"  \* ・
ZenL    == "uFF08"  \* （
ZenR    == "uFF09"  \* ）
HanL    == "u0028"  \* (
HanR    == "u0029"  \* )

\* pd.NA / NaN / None in a text column (pd.isna is true of it)
NA == <<"<NA>">>

isna(x) == x = NA

Kanagawa  == <<"u795E", "u5948", "u5DDD", "u770C">>  \* 神奈川県
Shizuoka  == <<"u9759", "u5CA1", "u770C">>  \* 静岡県
Yamanashi == <<"u5C71", "u68A8", "u770C">>  \* 山梨県

\* str.startswith
StartsWith(s, p) == Len(p) <= Len(s) /\ Take(s, Len(p)) = p

\* str.find, 1-based; 0 when w does not occur in s
Find(s, w) ==
    LET hits == {i \in 1..(Len(s) - Len(w) + 1) : SubSeq(s, i, i + Len(w) - 1) = w}
    IN  IF hits = {} THEN 0 ELSE CHOOSE i \in hits : \A j \in hits : i <= j

\* w in s
Contains(s, w) == Find(s, w) # 0

\* str.replace(w, ''): the non-overlapping occurrences of w, left to right
RECURSIVE Remove(_, _)
Remove(s, w) ==
    LET i == Find(s, w)
    IN  IF i = 0 THEN s
        ELSE Take(s, i - 1) \o Remove(Drop(s, i - 1 + Len(w)), w)

\* str.strip
RECURSIVE LStrip(_)
LStrip(s) == IF s # <<>> /\ s[1] = SP THEN LStrip(Drop(s, 1)) ELSE s

RECURSIVE RStrip(_)
RStrip(s) == IF s # <<>> /\ s[Len(s)] = SP THEN RStrip(Take(s, Len(s) - 1)) ELSE s

Strip(s) == RStrip(LStrip(s))

\* re.sub(open + '.*?' + close, '', s): each opening bracket that has a closing
\* bracket after it is deleted together with the text up to the nearest one
RECURSIVE RemoveBracketed(_, _, _)
RemoveBracketed(s, open, close) ==
    LET i == Find(s, <<open>>)
        j == IF i = 0 THEN 0 ELSE Find(Drop(s, i), <<close>>)
    IN  IF i = 0 \/ j = 0 THEN s
        ELSE Take(s, i - 1) \o RemoveBracketed(Drop(s, i + j), open, close)

-----------------------------------------------------------------------------
(***************************************************************************)
(* Alias Resolver and Address Cleaner: fix_city_name, clean_address        *)
(***************************************************************************)

\* the entries <<prefecture, city, corrected city>> of CITY_GUN_MAP:
\*   (神奈川県, 葉山町) -> 三浦郡葉山町
\*   (神奈川県, 二宮町) -> 中郡二宮町
\*   (神奈川県, 大磯町) -> 中郡大磯町
\*   (神奈川県, 愛川町) -> 愛甲郡愛川町
\*   (神奈川県, 清川村) -> 愛甲郡清川村
\*   (神奈川県, 中井町) -> 足柄上郡中井町
\*   (神奈川県, 大井町) -> 足柄上郡大井町
\*   (神奈川県, 山北町) -> 足柄上郡山北町
\*   (神奈川県, 松田町) -> 足柄上郡松田町
\*   (神奈川県, 開成町) -> 足柄上郡開成町
\*   (神奈川県, 湯河原町) -> 足柄下郡湯河原町
\*   (神奈川県, 真鶴町) -> 足柄下郡真鶴町
\*   (神奈川県, 箱根町) -> 足柄下郡箱根町
\*   (神奈川県, 寒川町) -> 高座郡寒川町
\*   (山梨県, 昭和町) -> 中巨摩郡昭和町
\*   (山梨県, 丹波山村) -> 北都留郡丹波山村
\*   (山梨県, 小菅村) -> 北都留郡小菅村
\*   (山梨県, 南部町) -> 南巨摩郡南部町
\*   (山梨県, 富士川町) -> 南巨摩郡富士川町
\*   (山梨県, 早川町) -> 南巨摩郡早川町
\*   (山梨県, 身延町) -> 南巨摩郡身延町
\*   (山梨県, 富士河口湖町) -> 南都留郡富士河口湖町
\*   (山梨県, 山中湖村) -> 南都留郡山中湖村
\*   (山梨県, 忍野村) -> 南都留郡忍野村
\*   (山梨県, 西桂町) -> 南都留郡西桂町
\*   (山梨県, 道志村) -> 南都留郡道志村
\*   (山梨県, 鳴沢村) -> 南都留郡鳴沢村
\*   (山梨県, 市川三郷町) -> 西八代郡市川三郷町
\*   (静岡県, 森町) -> 周智郡森町
\*   (静岡県, 吉田町) -> 榛原郡吉田町
\*   (静岡県, 川根本町) -> 榛原郡川根本町
\*   (静岡県, 函南町) -> 田方郡函南町
\*   (静岡県, 南伊豆町) -> 賀茂郡南伊豆町
\*   (静岡県, 東伊豆町) -> 賀茂郡東伊豆町
\*   (静岡県, 松崎町) -> 賀茂郡松崎町
\*   (静岡県, 河津町) -> 賀茂郡河津町
\*   (静岡県, 西伊豆町) -> 賀茂郡西伊豆町
\*   (静岡県, 小山町) -> 駿東郡小山町
\*   (静岡県, 清水町) -> 駿東郡清水町
\*   (静岡県, 長泉町) -> 駿東郡長泉町
CITY_GUN_MAP ==
    {
      <<Kanagawa, <<"u8449", "u5C71", "u753A">>,
        <<"u4E09", "u6D66", "u90E1", "u8449", "u5C71", "u753A">>>>,
      <<Kanagawa, <<"u4E8C", "u5BAE", "u753A">>,
        <<"u4E2D", "u90E1", "u4E8C", "u5BAE", "u753A">>>>,
      <<Kanagawa, <<"u5927", "u78EF", "u753A">>,
        <<"u4E2D", "u90E1", "u5927", "u78EF", "u753A">>>>,
      <<Kanagawa, <<"u611B", "u5DDD", "u753A">>,
        <<"u611B", "u7532", "u90E1", "u611B", "u5DDD", "u753A">>>>,
      <<Kanagawa, <<"u6E05", "u5DDD", "u6751">>,
        <<"u611B", "u7532", "u90E1", "u6E05", "u5DDD", "u6751">>>>,
      <<Kanagawa, <<"u4E2D", "u4E95", "u753A">>,
        <<"u8DB3", "u67C4", "u4E0A", "u90E1", "u4E2D", "u4E95", "u753A">>>>,
      <<Kanagawa, <<"u5927", "u4E95", "u753A">>,
        <<"u8DB3", "u67C4", "u4E0A", "u90E1", "u5927", "u4E95", "u753A">>>>,
      <<Kanagawa, <<"u5C71", "u5317", "u753A">>,
        <<"u8DB3", "u67C4", "u4E0A", "u90E1", "u5C71", "u5317", "u753A">>>>,
      <<Kanagawa, <<"u677E", "u7530", "u753A">>,
        <<"u8DB3", "u67C4", "u4E0A", "u90E1", "u677E", "u7530", "u753A">>>>,
      <<Kanagawa, <<"u958B", "u6210", "u753A">>,
        <<"u8DB3", "u67C4", "u4E0A", "u90E1", "u958B", "u6210", "u753A">>>>,
      <<Kanagawa, <<"u6E6F", "u6CB3", "u539F", "u753A">>,
        <<"u8DB3", "u67C4", "u4E0B", "u90E1", "u6E6F", "u6CB3", "u539F", "u753A">>>>,
      <<Kanagawa, <<"u771F", "u9DB4", "u753A">>,
        <<"u8DB3", "u67C4", "u4E0B", "u90E1", "u771F", "u9DB4", "u753A">>>>,
      <<Kanagawa, <<"u7BB1", "u6839", "u753A">>,
        <<"u8DB3", "u67C4", "u4E0B", "u90E1", "u7BB1", "u6839", "u753A">>>>,
      <<Kanagawa, <<"u5BD2", "u5DDD", "u753A">>,
        <<"u9AD8", "u5EA7", "u90E1", "u5BD2", "u5DDD", "u753A">>>>,
      <<Yamanashi, <<"u662D", "u548C", "u753A">>,
        <<"u4E2D", "u5DE8", "u6469", "u90E1", "u662D", "u548C", "u753A">>>>,
      <<Yamanashi, <<"u4E39", "u6CE2", "u5C71", "u6751">>,
        <<"u5317", "u90FD", "u7559", "u90E1", "u4E39", "u6CE2", "u5C71", "u6751">>>>,
      <<Yamanashi, <<"u5C0F", "u83C5", "u6751">>,
        <<"u5317", "u90FD", "u7559", "u90E1", "u5C0F", "u83C5", "u6751">>>>,
      <<Yamanashi, <<"u5357", "u90E8", "u753A">>,
        <<"u5357", "u5DE8", "u6469", "u90E1", "u5357", "u90E8", "u753A">>>>,
      <<Yamanashi, <<"u5BCC", "u58EB", "u5DDD", "u753A">>,
        <<"u5357", "u5DE8", "u6469", "u90E1", "u5BCC", "u58EB", "u5DDD", "u753A">>>>,
      <<Yamanashi, <<"u65E9", "u5DDD", "u753A">>,
        <<"u5357", "u5DE8", "u6469", "u90E1", "u65E9", "u5DDD", "u753A">>>>,
      <<Yamanashi, <<"u8EAB", "u5EF6", "u753A">>,
        <<"u5357", "u5DE8", "u6469", "u90E1", "u8EAB", "u5EF6", "u753A">>>>,
      <<Yamanashi, <<"u5BCC", "u58EB", "u6CB3", "u53E3", "u6E56", "u753A">>,
        <<"u5357", "u90FD", "u7559", "u90E1", "u5BCC", "u58EB", "u6CB3", "u53E3", "u6E56", "u753A">>>>,
      <<Yamanashi, <<"u5C71", "u4E2D", "u6E56", "u6751">>,
        <<"u5357", "u90FD", "u7559", "u90E1", "u5C71", "u4E2D", "u6E56", "u6751">>>>,
      <<Yamanashi, <<"u5FCD", "u91CE", "u6751">>,
        <<"u5357", "u90FD", "u7559", "u90E1", "u5FCD", "u91CE", "u6751">>>>,
      <<Yamanashi, <<"u897F", "u6842", "u753A">>,
        <<"u5357", "u90FD", "u7559", "u90E1", "u897F", "u6842", "u753A">>>>,
      <<Yamanashi, <<"u9053", "u5FD7", "u6751">>,
        <<"u5357", "u90FD", "u7559", "u90E1", "u9053", "u5FD7", "u6751">>>>,
      <<Yamanashi, <<"u9CF4", "u6CA2", "u6751">>,
        <<"u5357", "u90FD", "u7559", "u90E1", "u9CF4", "u6CA2", "u6751">>>>,
      <<Yamanashi, <<"u5E02", "u5DDD", "u4E09", "u90F7", "u753A">>,
        <<"u897F", "u516B", "u4EE3", "u90E1", "u5E02", "u5DDD", "u4E09", "u90F7", "u753A">>>>,
      <<Shizuoka, <<"u68EE", "u753A">>,
        <<"u5468", "u667A", "u90E1", "u68EE", "u753A">>>>,
      <<Shizuoka, <<"u5409", "u7530", "u753A">>,
        <<"u699B", "u539F", "u90E1", "u5409", "u7530", "u753A">>>>,
      <<Shizuoka, <<"u5DDD", "u6839", "u672C", "u753A">>,
        <<"u699B", "u539F", "u90E1", "u5DDD", "u6839", "u672C", "u753A">>>>,
      <<Shizuoka, <<"u51FD", "u5357", "u753A">>,
        <<"u7530", "u65B9", "u90E1", "u51FD", "u5357", "u753A">>>>,
      <<Shizuoka, <<"u5357", "u4F0A", "u8C46", "u753A">>,
        <<"u8CC0", "u8302", "u90E1", "u5357", "u4F0A", "u8C46", "u753A">>>>,
      <<Shizuoka, <<"u6771", "u4F0A", "u8C46", "u753A">>,
        <<"u8CC0", "u8302", "u90E1", "u6771", "u4F0A", "u8C46", "u753A">>>>,
      <<Shizuoka, <<"u677E", "u5D0E", "u753A">>,
        <<"u8CC0", "u8302", "u90E1", "u677E", "u5D0E", "u753A">>>>,
      <<Shizuoka, <<"u6CB3", "u6D25", "u753A">>,
        <<"u8CC0", "u8302", "u90E1", "u6CB3", "u6D25", "u753A">>>>,
      <<Shizuoka, <<"u897F", "u4F0A", "u8C46", "u753A">>,
        <<"u8CC0", "u8302", "u90E1", "u897F", "u4F0A", "u8C46", "u753A">>>>,
      <<Shizuoka, <<"u5C0F", "u5C71", "u753A">>,
        <<"u99FF", "u6771", "u90E1", "u5C0F", "u5C71", "u753A">>>>,
      <<Shizuoka, <<"u6E05", "u6C34", "u753A">>,
        <<"u99FF", "u6771", "u90E1", "u6E05", "u6C34", "u753A">>>>,
      <<Shizuoka, <<"u9577", "u6CC9", "u753A">>,
        <<"u99FF", "u6771", "u90E1", "u9577", "u6CC9", "u753A">>>>
    }

fix_city_name(pref, city) ==
    IF isna(city) THEN <<>>
    ELSE IF \E e \in CITY_GUN_MAP : e[1] = pref /\ e[2] = city
         THEN (CHOOSE e \in CITY_GUN_MAP : e[1] = pref /\ e[2] = city)[3]
         ELSE city

\* 付近 峠 地区 地内 山地 徳間 鯨野 釜の口 諏訪内 大道 佐野区
remove_words ==
    <<
      <<"u4ED8", "u8FD1">>,
      <<"u5CE0">>,
      <<"u5730", "u533A">>,
      <<"u5730", "u5185">>,
      <<"u5C71", "u5730">>,
      <<"u5FB3", "u9593">>,
      <<"u9BE8", "u91CE">>,
      <<"u91DC", "u306E", "u53E3">>,
      <<"u8ACF", "u8A2A", "u5185">>,
      <<"u5927", "u9053">>,
      <<"u4F50", "u91CE", "u533A">>
    >>

RECURSIVE RemoveWords(_, _)
RemoveWords(s, words) ==
    IF words = <<>> THEN s
    ELSE RemoveWords(Remove(s, words[1]), Drop(words, 1))

MidoriKu == <<Midori, Ku>>

\* '' if pd.isna(s) else str(s)
fillna(s) == IF isna(s) THEN <<>> ELSE s

\* the city name repeated at the start of location is cut off
strip_city(city, location) ==
    IF city # <<>> /\ StartsWith(location, city)
    THEN Strip(Drop(location, Len(city))) ELSE location

\* 緑区 is in location and not in city
has_ward(city, location) ==
    Contains(location, MidoriKu) /\ ~Contains(city, MidoriKu)

\* 緑区 moves from location to city
move_ward(city, location) ==
    IF has_ward(city, location)
    THEN <<city \o MidoriKu, Remove(location, MidoriKu)>>
    ELSE <<city, location>>

\* the text before the first ・
split_nakaten(location) ==
    IF Contains(location, <<Nakaten>>)
    THEN Take(location, Find(location, <<Nakaten>>) - 1) ELSE location

\* the brackets and the words removed from location
strip_location(location) ==
    Strip(RemoveWords(RemoveBracketed(RemoveBracketed(split_nakaten(location),
                                                      ZenL, ZenR),
                                      HanL, HanR),
                      remove_words))

strip_pair(pair) == <<Strip(pair[1]), strip_location(pair[2])>>

clean_address(city, location) ==
    strip_pair(move_ward(fillna(city),
                         strip_city(fillna(city), fillna(location))))

-----------------------------------------------------------------------------
(* Harness of the Address Cleaner *)

MaxCityLen == 1     \* longest city tried
MaxLocLen  == 4     \* longest location tried

AddrChars == {SP, "u4ED8", "u8FD1", Midori, Ku, Nakaten, ZenL, ZenR, HanL, HanR}

IdleClean == addr_in = <<>> /\ addr_once = <<>> /\ addr_twice = <<>>

InitClean ==
    /\ addr_in \in (SeqsUpTo(AddrChars, MaxCityLen) \cup {NA})
                   \X (SeqsUpTo(AddrChars, MaxLocLen) \cup {NA})
    /\ addr_once = <<>>
    /\ addr_twice = <<>>

CleanOnce ==
    /\ addr_once = <<>>
    /\ addr_once' = clean_address(addr_in[1], addr_in[2])
    /\ UNCHANGED <<addr_in, addr_twice>>

CleanTwice ==
    /\ addr_once # <<>>
    /\ addr_twice = <<>>
    /\ addr_twice' = clean_address(addr_once[1], addr_once[2])
    /\ UNCHANGED <<addr_in, addr_once>>

-----------------------------------------------------------------------------
(***************************************************************************)
(* Geocode Dictionary and lookup: load_geo_cache, lookup_coords and the    *)
(* loop body of add_coords_from_cache                                      *)
(***************************************************************************)

\* A value yaml.safe_load can return: None, a scalar (number, string, list)
\* or a mapping from keys to such values.
YNull      == [kind |-> "null", items |-> <<>>]
YScalar    == [kind |-> "scalar", items |-> <<>>]
YMap(f)    == [kind |-> "map", items |-> f]
YEmptyMap  == YMap(<<>>)

\* the keys of a coordinate entry (an ASCII key is written as one symbol)
LonKey == <<"longitude">>
LatKey == <<"latitude">>

\* a coordinate value that is None
None == "None"

Coords(lon, lat) == YMap([k \in {LonKey, LatKey} |-> IF k = LonKey THEN lon ELSE lat])

\* the sentinel sub-area 以下に掲載がない場合
Sentinel == <<"u4EE5", "u4E0B", "u306B", "u63B2", "u8F09", "u304C", "u306A", "u3044", "u5834", "u5408">>

\* v[k] in Python
Index(v, k) ==
    IF v.kind # "map" THEN Raise("TypeError", YNull)
    ELSE IF k \in DOMAIN v.items THEN Returned(v.items[k])
    ELSE Raise("KeyError", YNull)

\* v[keys[1]][keys[2]]...
RECURSIVE IndexPath(_, _)
IndexPath(v, keys) ==
    IF keys = <<>> THEN Returned(v)
    ELSE LET r == Index(v, keys[1])
         IN  IF r.st = "raised" THEN r ELSE IndexPath(r.val, Drop(keys, 1))

\* the first of two lookups that does not end in KeyError, else the pair of
\* None values; an exception other than KeyError is not caught
first_found(first, second) ==
    IF first.st = "returned" \/ first.exc # "KeyError" THEN first
    ELSE IF second.st = "returned" \/ second.exc # "KeyError" THEN second
    ELSE Returned(Coords(None, None))

\* a lookup that tries the sentinel entry before the exact entry
lookup_coords_sentinel_first(pref, city, area, geo_dict_) ==
    first_found(IndexPath(geo_dict_, <<pref, city, Sentinel>>),
                IndexPath(geo_dict_, <<pref, city, area>>))

lookup_coords(pref, city, area, geo_dict_) ==
    first_found(IndexPath(geo_dict_, <<pref, city, area>>),
                IndexPath(geo_dict_, <<pref, city, Sentinel>>))

NoCoords == [longitude |-> None, latitude |-> None]

\* coords['longitude'] and coords['latitude'], read in this order
lon_lat(lon, lat) ==
    IF lon.st = "raised" THEN Raise(lon.exc, NoCoords)
    ELSE IF lat.st = "raised" THEN Raise(lat.exc, NoCoords)
    ELSE Returned([longitude |-> lon.val, latitude |-> lat.val])

\* the two values appended for the outcome of lookup_coords
append_coords(coords) ==
    IF coords.st = "raised" THEN Raise(coords.exc, NoCoords)
    ELSE lon_lat(Index(coords.val, LonKey), Index(coords.val, LatKey))

\* steps 2 and 3 of the loop body, for the pair clean_address returned
lookup_cleaned(pref, cleaned, geo_dict_) ==
    lookup_coords(pref, fix_city_name(pref, cleaned[1]), cleaned[2], geo_dict_)

\* the body of the loop of add_coords_from_cache for one row: the pair of
\* values appended to longitudes and latitudes, or the exception raised
geocode_row(r, geo_dict_) ==
    append_coords(lookup_cleaned(r.prefecture,
                                 clean_address(r.city, r.location), geo_dict_))

-----------------------------------------------------------------------------
(* Harness of the geocode lookup *)

Yamakita      == <<"u5C71", "u5317", "u753A">>        \* 山北町
YamakitaFixed == <<"u8DB3", "u67C4", "u4E0A", "u90E1", "u5C71", "u5317", "u753A">>  \* 足柄上郡山北町
Nakagawa      == <<"u4E2D", "u5DDD">>          \* 中川
NakagawaFukin == <<"u4E2D", "u5DDD", "u4ED8", "u8FD1">>  \* 中川付近
Yaga          == <<"u8C37", "u5CE8">>          \* 谷峨

CoordA == Coords("139.04", "35.42")
CoordB == Coords("139.07", "35.36")

DictPrefs  == {Kanagawa, Shizuoka}
DictCities == {YamakitaFixed}
DictAreas  == {Nakagawa, Sentinel}

\* all mappings from a subset of keys to the given values
MapsOver(keys, values) == UNION {[ks -> values] : ks \in SUBSET keys}

\* the three-level mappings region -> locality -> sub-area -> {longitude, latitude}
WellFormedLocalities == {YMap(f) : f \in MapsOver(DictAreas, {CoordA, CoordB})}
WellFormedRegions    == {YMap(f) : f \in MapsOver(DictCities, WellFormedLocalities)}
WellFormedDicts      == {YMap(f) : f \in MapsOver(DictPrefs, WellFormedRegions)}

\* every shape the file can load to: at any level None or a scalar in place of
\* a mapping, and coordinate entries that lack a key or hold None
AnyLeaves     == {YNull, CoordA,
                  Coords(None, None), YMap([k \in {LonKey} |-> "139.04"])}
AnyLocalities == {YNull, YScalar} \cup {YMap(f) : f \in MapsOver(DictAreas, AnyLeaves)}
AnyRegions    == {YNull, YScalar} \cup {YMap(f) : f \in MapsOver(DictCities, AnyLocalities)}
AnyDicts      == {YNull} \cup {YMap(f) : f \in MapsOver(DictPrefs, AnyRegions)}

LookupRows ==
    [prefecture : {Kanagawa, Shizuoka},
     city       : {Yamakita, YamakitaFixed, <<>>, NA},
     location   : {Nakagawa, NakagawaFukin, Yaga, <<>>, NA}]

PendingLookup == [st |-> "pending", exc |-> "", val |-> YNull]
PendingRow    == [st |-> "pending", exc |-> "", val |-> NoCoords]
IdleRow       == [prefecture |-> <<>>, city |-> <<>>, location |-> <<>>]

IdleLookup ==
    geo_dict = YNull /\ row = IdleRow /\ lk_out = PendingLookup /\ row_out = PendingRow

InitLookup ==
    /\ geo_dict \in WellFormedDicts
    /\ row \in LookupRows
    /\ lk_out = PendingLookup
    /\ row_out = PendingRow

InitGeocode ==
    /\ geo_dict \in AnyDicts
    /\ row \in LookupRows
    /\ lk_out = PendingLookup
    /\ row_out = PendingRow

\* lookup_coords called with the fields of the row as they are
LookupCoords ==
    /\ lk_out.st = "pending"
    /\ lk_out' = lookup_coords(row.prefecture, row.city, row.location, geo_dict)
    /\ UNCHANGED <<geo_dict, row, row_out>>

\* one iteration of the loop of add_coords_from_cache
GeocodeRow ==
    /\ row_out.st = "pending"
    /\ row_out' = geocode_row(row, geo_dict)
    /\ UNCHANGED <<geo_dict, row, lk_out>>

-----------------------------------------------------------------------------
(***************************************************************************)
(* Record Normalizer and Merge/Sort: parse_kanagawa_location,              *)
(* combine_json_data                                                       *)
(***************************************************************************)

Sources == {"kanagawa", "yamanashi", "shizuoka"}

BoundaryWords == {Shi, Machi, Mura}

\* <<city, rest>> of a Kanagawa location
parse_kanagawa_location(loc_str) ==
    IF loc_str = <<>> THEN <<NA, NA>>
    ELSE LET hits == {i \in 1..Len(loc_str) : loc_str[i] \in BoundaryWords}
         IN  IF hits # {}
             THEN LET idx == CHOOSE i \in hits : \A j \in hits : i <= j
                  IN  <<Take(loc_str, idx), Strip(Drop(loc_str, idx))>>
             ELSE <<NA, loc_str>>

\* the value convert_date returns for the fragment of a record
DateOf(fragment) == (CHOOSE o \in convert_date(fragment) : TRUE).val

CanonicalRecord(pref, date, city, location) ==
    [prefecture |-> pref, date |-> date, city |-> city, location |-> location]

normalize_kanagawa(rec) ==
    LET split == parse_kanagawa_location(rec.location)
    IN  CanonicalRecord(Kanagawa, DateOf(rec.date), split[1], split[2])

normalize_shizuoka(rec) ==
    CanonicalRecord(Shizuoka, DateOf(rec.date), rec.municipality, rec.location)

normalize_yamanashi(rec) ==
    CanonicalRecord(Yamanashi, DateOf(rec.date), rec.city, rec.location)

\* json.load of a per-source file, [] when it cannot be opened
load_json(file) == IF file.exists THEN file.sightings ELSE <<>>

\* normalized_data: Kanagawa, then Shizuoka, then Yamanashi
normalized_data(json_) ==
    LET kanagawa_data  == load_json(json_["kanagawa"])
        shizuoka_data  == load_json(json_["shizuoka"])
        yamanashi_data == load_json(json_["yamanashi"])
    IN  [i \in 1..Len(kanagawa_data) |-> normalize_kanagawa(kanagawa_data[i])]
        \o [i \in 1..Len(shizuoka_data) |-> normalize_shizuoka(shizuoka_data[i])]
        \o [i \in 1..Len(yamanashi_data) |-> normalize_yamanashi(yamanashi_data[i])]

\* the order of sort_values('date'): ascending, NaT last
DateBefore(a, b) == a # NaT /\ (b = NaT \/ DateLess(a, b))

Orderings(n) == {f \in [1..n -> 1..n] : \A i, j \in 1..n : i # j => f[i] # f[j]}

\* a sort that leaves the rows in the order of the concatenation
sort_values_unsorted(rows) == {rows}

\* The results df.sort_values('date') can give: the default sort kind is
\* quicksort, which fixes no order among rows with equal dates.
sort_values(rows) ==
    {[i \in 1..Len(rows) |-> rows[f[i]]] :
        f \in {g \in Orderings(Len(rows)) :
                 \A i, j \in 1..Len(rows) :
                     i < j => ~DateBefore(rows[g[j]].date, rows[g[i]].date)}}

\* A text cell written by to_csv and read back by read_csv: the empty string
\* and a missing value are both written as the empty cell, which is read as NaN.
csv_cell(v) == IF v = <<>> THEN NA ELSE v

csv_row(r) ==
    [prefecture |-> r.prefecture, date |-> r.date,
     city |-> csv_cell(r.city), location |-> csv_cell(r.location)]

-----------------------------------------------------------------------------
(***************************************************************************)
(* Geocode Stage and the final write: add_coords_from_cache, main          *)
(***************************************************************************)

WithCoords(r, c) ==
    [prefecture |-> r.prefecture, date |-> r.date, city |-> r.city,
     location |-> r.location, longitude |-> c.longitude, latitude |-> c.latitude]

\* the first exception among the outcomes of the rows, else the table with the
\* two columns built from the values of the outcomes
WithColumns(rows, outs) ==
    LET raised == {i \in 1..Len(outs) : outs[i].st = "raised"}
    IN  IF raised # {}
        THEN Raise(outs[CHOOSE i \in raised : \A j \in raised : i <= j].exc, <<>>)
        ELSE Returned([i \in 1..Len(rows) |-> WithCoords(rows[i], outs[i].val)])

\* a stage that writes the cleaned address back into the row
add_coords_overwriting(rows, geo_dict_) ==
    WithColumns([i \in 1..Len(rows) |->
                    [rows[i] EXCEPT
                        !.location = clean_address(rows[i].city, rows[i].location)[2]]],
                [i \in 1..Len(rows) |-> geocode_row(rows[i], geo_dict_)])

\* add_coords_from_cache: the rows with the two columns added, or the
\* exception of the first row whose lookup raises
add_coords_from_cache(rows, geo_dict_) ==
    WithColumns(rows, [i \in 1..Len(rows) |-> geocode_row(rows[i], geo_dict_)])

\* load_geo_cache: open() or yaml.safe_load raises when the file is missing or
\* is not YAML
load_geo_cache(file) ==
    IF file.st = "missing" THEN Raise("FileNotFoundError", YNull)
    ELSE IF file.st = "corrupt" THEN Raise("YAMLError", YNull)
    ELSE Returned(file.value)

\* df['longitude'] = np.nan; df['latitude'] = np.nan
nan_coords(rows) == [i \in 1..Len(rows) |-> WithCoords(rows[i], NoCoords)]

\* a handler that lets the exception end the run
on_geocode_error_abort(rows, e) == Raise(e, rows)

\* the except branch of main
on_geocode_error(rows, e) == Returned(nan_coords(rows))

\* the try block of main, given the outcome of load_geo_cache
try_geocode(rows, cache) ==
    IF cache.st = "raised" THEN Raise(cache.exc, <<>>)
    ELSE add_coords_from_cache(rows, cache.val)

\* try ... except Exception
except_Exception(rows, out) ==
    IF out.st = "raised" THEN on_geocode_error(rows, out.exc) ELSE out

\* step 4 of main up to the final write
geocode_stage(rows, file) ==
    except_Exception(rows, try_geocode(rows, load_geo_cache(file)))

-----------------------------------------------------------------------------
(* The files and the run *)

MaxRuns == 2        \* runs of main

\* sightings as the per-source parsers extract them (the fields that
\* combine_json_data reads)
Kofu     == <<"u7532", "u5E9C", "u5E02">>     \* 甲府市
Kamiobi  == <<"u4E0A", "u5E2F", "u90A3", "u753A">>  \* 上帯那町
ShizuShi == <<"u9759", "u5CA1", "u5E02">>     \* 静岡市
Ikawa    == <<"u4E95", "u5DDD">>      \* 井川

K1 == [date |-> MonthDayForm(6, 19), location |-> Yamakita \o NakagawaFukin]
K2 == [date |-> MonthDayForm(6, 19), location |-> Yaga]
Y1 == [date |-> SlashForm(2024, 6, 4), city |-> Kofu, location |-> Kamiobi]
S1 == [date |-> MonthDayForm(6, 19), municipality |-> ShizuShi, location |-> Ikawa]
\* a Kanagawa line of exactly five tokens dated 2月30日: no place, no calendar date
K3 == [date |-> MonthDayForm(2, 30), location |-> <<>>]

Sightings(s) ==
    IF s = "kanagawa" THEN {<<K1>>, <<K2, K1>>, <<K3, K1>>}
    ELSE IF s = "yamanashi" THEN {<<Y1>>}
    ELSE {<<S1>>}

Prefecture(s) ==
    IF s = "kanagawa" THEN Kanagawa ELSE IF s = "yamanashi" THEN Yamanashi ELSE Shizuoka

\* a PDF on disk: absent, not a readable PDF, or a bulletin with its sightings
PdfAbsent   == [st |-> "absent", sightings |-> <<>>]
PdfCorrupt  == [st |-> "corrupt", sightings |-> <<>>]
PdfOf(recs) == [st |-> "ok", sightings |-> recs]

NoJson       == [exists |-> FALSE, sightings |-> <<>>]
JsonOf(recs) == [exists |-> TRUE, sightings |-> recs]

\* a CSV file as a reader finds it: absent, or the lines written so far
NoFile        == [exists |-> FALSE, header |-> FALSE, rows |-> <<>>]
EmptyFile     == [exists |-> TRUE, header |-> FALSE, rows |-> <<>>]
CsvFile(rows) == [exists |-> TRUE, header |-> TRUE, rows |-> rows]

\* areas_with_coords.yml
YamlMissing  == [st |-> "missing", value |-> YNull]
YamlCorrupt  == [st |-> "corrupt", value |-> YNull]
YamlOf(v)    == [st |-> "ok", value |-> v]

KanagawaFull     ==
    YMap([c \in {YamakitaFixed} |->
            YMap([a \in {Nakagawa, Sentinel} |-> IF a = Nakagawa THEN CoordA ELSE CoordB])])
KanagawaSentinel ==
    YMap([c \in {YamakitaFixed} |-> YMap([a \in {Sentinel} |-> CoordB])])
ShizuokaFull     ==
    YMap([c \in {ShizuShi} |-> YMap([a \in {Ikawa} |-> CoordB])])

RunDicts ==
    {YNull}
    \cup {YMap([p \in {Kanagawa} |-> k]) : k \in {KanagawaFull, KanagawaSentinel}}
    \cup {YMap([p \in {Kanagawa, Shizuoka} |-> IF p = Kanagawa THEN KanagawaFull ELSE z]) :
            z \in {YEmptyMap, YNull, ShizuokaFull}}

YamlFiles == {YamlMissing, YamlCorrupt} \cup {YamlOf(d) : d \in RunDicts}

NoHist == [unavailable |-> {}, last_complete |-> NoFile, completed |-> <<>>]

InitRun ==
    /\ pc = "idle"
    /\ run = 0
    /\ pdf = [s \in Sources |-> PdfAbsent]
    /\ json = [s \in Sources |-> NoJson]
    /\ yaml \in YamlFiles
    /\ combined = NoFile
    /\ df = <<>>
    /\ final = NoFile
    /\ hist = NoHist

IdleRun ==
    /\ pc = "idle"
    /\ run = 0
    /\ pdf = [s \in Sources |-> PdfAbsent]
    /\ json = [s \in Sources |-> NoJson]
    /\ yaml = YamlMissing
    /\ combined = NoFile
    /\ df = <<>>
    /\ final = NoFile
    /\ hist = NoHist

\* scrape_pdfs: per source, the download either fails before the file is
\* opened (the file stays as it was) or writes whatever the server sent
scrape_pdfs ==
    /\ pc = "idle"
    /\ run < MaxRuns
    /\ run' = run + 1
    /\ pdf' \in [Sources -> {PdfAbsent, PdfCorrupt} \cup {PdfOf(c) : c \in UNION {Sightings(s) : s \in Sources}}]
    /\ \A s \in Sources :
          \/ pdf'[s] = pdf[s]
          \/ pdf'[s] = PdfCorrupt
          \/ \E c \in Sightings(s) : pdf'[s] = PdfOf(c)
    /\ hist' = [hist EXCEPT !.unavailable = {}]
    /\ pc' = "parse_kanagawa"
    /\ UNCHANGED <<json, yaml, combined, df, final>>

\* a JSON file that every parser writes
json_path_shared(s) == "kanagawa"

\* json_path of parse_<source>_pdf: bear_sightings_<source>.json
json_path(s) == s

\* the JSON files after parse_<source>_pdf, given what pdfplumber.open and the
\* line loop made of the PDF: json.dump is reached only without an exception
json_dump(json_, s, read) ==
    IF read.st = "ok"
    THEN [json_ EXCEPT ![json_path(s)] = JsonOf(read.sightings)]
    ELSE json_

\* parse_<source>_pdf: the JSON file is written only when the PDF could be
\* read; any exception is printed and swallowed
parse_pdf(s, next) ==
    /\ pc = "parse_" \o s
    /\ json' = json_dump(json, s, pdf[s])
    /\ hist' = IF pdf[s].st = "ok" THEN hist
               ELSE [hist EXCEPT !.unavailable = @ \cup {s}]
    /\ pc' = next
    /\ UNCHANGED <<run, pdf, yaml, combined, df, final>>

parse_kanagawa_pdf == parse_pdf("kanagawa", "parse_yamanashi")

parse_yamanashi_pdf == parse_pdf("yamanashi", "parse_shizuoka")

parse_shizuoka_pdf == parse_pdf("shizuoka", "combine")

\* the CSV files combine_json_data can write for the given JSON files
Emitted(json_) ==
    {CsvFile([i \in 1..Len(sorted) |-> csv_row(sorted[i])]) :
        sorted \in sort_values(normalized_data(json_))}

\* combine_json_data: load, normalise, convert the dates, sort, write the CSV
combine_json_data ==
    /\ pc = "combine"
    /\ combined' \in Emitted(json)
    /\ pc' = "geocode"
    /\ UNCHANGED <<run, pdf, json, yaml, df, final, hist>>

\* the data frame after the try/except, and where main goes on: an exception
\* that leaves the handler ends the run before the write
after_geocode(out) ==
    /\ df' = out.val
    /\ pc' = IF out.st = "raised" THEN "aborted" ELSE "open_final"

\* main, step 4 before the write: read_csv, load_geo_cache, add_coords_from_cache
geocode ==
    /\ pc = "geocode"
    /\ after_geocode(geocode_stage(combined.rows, yaml))
    /\ UNCHANGED <<run, pdf, json, yaml, combined, final, hist>>

\* df.to_csv(out_csv): open(out_csv, 'w') truncates the file in place
open_final ==
    /\ pc = "open_final"
    /\ final' = EmptyFile
    /\ pc' = "write_final"
    /\ UNCHANGED <<run, pdf, json, yaml, combined, df, hist>>

\* df.to_csv(out_csv): the header line, then the rows, reach the file in order
write_final ==
    /\ pc = "write_final"
    /\ \/ ~final.header /\ final' = [final EXCEPT !.header = TRUE]
       \/ /\ final.header
          /\ Len(final.rows) < Len(df)
          /\ final' = [final EXCEPT !.rows = Append(@, df[Len(@) + 1])]
    /\ UNCHANGED <<pc, run, pdf, json, yaml, combined, df, hist>>

\* df.to_csv(out_csv) returns: the file is closed with every line in it
close_final ==
    /\ pc = "write_final"
    /\ final = CsvFile(df)
    /\ pc' = "done"
    /\ hist' = [hist EXCEPT !.last_complete = final]
    /\ UNCHANGED <<run, pdf, json, yaml, combined, df, final>>

\* main returns and the process ends; the next run starts from the files
exit_main ==
    /\ pc = "done"
    /\ pc' = "idle"
    /\ df' = <<>>
    /\ UNCHANGED <<run, pdf, json, yaml, combined, final, hist>>

\* the process is killed, or to_csv raises OSError (disk full), during the
\* final write: nothing is caught and nothing is cleaned up
crash_in_write ==
    /\ pc = "write_final"
    /\ pc' = "idle"
    /\ df' = <<>>
    /\ UNCHANGED <<run, pdf, json, yaml, combined, final, hist>>

\* load_and_process_data of the dashboard: read_csv raises on a file with no
\* header line, else the rows with coordinates and a date are kept
load_and_process_data(file) ==
    IF ~file.exists THEN Raise("FileNotFoundError", <<>>)
    ELSE IF ~file.header THEN Raise("EmptyDataError", <<>>)
    ELSE Returned(SelectSeq(file.rows,
            LAMBDA r : r.latitude # None /\ r.longitude # None /\ r.date # NaT))

-----------------------------------------------------------------------------
(***************************************************************************)
(* The line loop of parse_kanagawa_pdf                                     *)
(***************************************************************************)

DigitChars == {"u0030", "u0031", "u0032", "u0033", "u0034",
               "u0035", "u0036", "u0037", "u0038", "u0039"}

IsDigit(c) == c \in DigitChars

GatsuChar == "u6708"  \* 月
NichiChar == "u65E5"  \* 日

\* s[i], or no character beyond the ends of s
At(s, i) == IF i \in 1..Len(s) THEN s[i] ELSE ""

\* str.split(): the whitespace-delimited words of s
RECURSIVE Split(_)
Split(s) ==
    IF LStrip(s) = <<>> THEN <<>>
    ELSE IF Find(LStrip(s), <<SP>>) = 0 THEN <<LStrip(s)>>
    ELSE <<Take(LStrip(s), Find(LStrip(s), <<SP>>) - 1)>>
         \o Split(Drop(LStrip(s), Find(LStrip(s), <<SP>>)))

\* " ".join(parts)
RECURSIVE Join(_)
Join(parts) ==
    IF parts = <<>> THEN <<>>
    ELSE IF Len(parts) = 1 THEN parts[1]
    ELSE parts[1] \o <<SP>> \o Join(Tail(parts))

\* 《目撃・痕跡・その他》
HeaderMark == <<"u300A", "u76EE", "u6483", "u30FB", "u75D5", "u8DE1", "u30FB", "u305D", "u306E", "u4ED6", "u300B">>

\* 月日 時間 頭数 状況 場所等 区分 目撃・痕跡 その他
column_titles ==
    { <<"u6708", "u65E5">>,
      <<"u6642", "u9593">>,
      <<"u982D", "u6570">>,
      <<"u72B6", "u6CC1">>,
      <<"u5834", "u6240", "u7B49">>,
      <<"u533A", "u5206">>,
      <<"u76EE", "u6483", "u30FB", "u75D5", "u8DE1">>,
      <<"u305D", "u306E", "u4ED6">> }

\* the lines the loop skips before it looks for a date
kanagawa_skips(line_) ==
    \/ Strip(line_) = <<>>
    \/ Contains(line_, HeaderMark)
    \/ \A title \in column_titles : Contains(line_, title)

\* (1[0-2]|[1-9]) at position i: the last position of the month for each
\* alternative that matches, in the order the regex tries them
month_ends(s, i) ==
    (IF At(s, i) = "u0031" /\ At(s, i + 1) \in {"u0030", "u0031", "u0032"}
     THEN <<i + 1>> ELSE <<>>)
    \o (IF At(s, i) \in DigitChars \ {"u0030"} THEN <<i>> ELSE <<>>)

\* 月(\d{1,2})日 after position k: the position of 日, or 0
day_end(s, k) ==
    IF At(s, k + 1) # GatsuChar THEN 0
    ELSE IF IsDigit(At(s, k + 2)) /\ IsDigit(At(s, k + 3)) /\ At(s, k + 4) = NichiChar
    THEN k + 4
    ELSE IF IsDigit(At(s, k + 2)) /\ At(s, k + 3) = NichiChar THEN k + 3
    ELSE 0

\* the end of the match of date_pattern that starts at i, or 0
match_end(s, i) ==
    LET ends == SelectSeq(month_ends(s, i), LAMBDA e : day_end(s, e) # 0)
    IN  IF ends = <<>> THEN 0 ELSE day_end(s, ends[1])

\* date_pattern.search(s): <<m.start() + 1, m.end()>> of the leftmost match,
\* <<0, 0>> for None
date_pattern_search(s) ==
    LET hits == {i \in 1..Len(s) : match_end(s, i) # 0}
    IN  IF hits = {} THEN <<0, 0>>
        ELSE <<CHOOSE i \in hits : \A j \in hits : i <= j,
               match_end(s, CHOOSE i \in hits : \A j \in hits : i <= j)>>

\* a place that runs up to the last token but one
location_parts_to_area(parts) == SubSeq(parts, 4, Len(parts) - 1)

\* parts[3:-2]
location_parts(parts) == SubSeq(parts, 4, Len(parts) - 2)

\* the dictionary appended to sightings
kanagawa_sighting(date, parts) ==
    [date |-> date,
     time |-> parts[1],
     number_of_bears |-> parts[2],
     status |-> parts[3],
     location |-> Join(location_parts(parts)),
     area_type |-> parts[Len(parts) - 1],
     observation_type |-> parts[Len(parts)]]

\* if len(parts) >= 5
kanagawa_emit(date, parts) ==
    IF Len(parts) >= 5 THEN <<kanagawa_sighting(date, parts)>> ELSE <<>>

\* the loop body from the search on, for the match m
kanagawa_match(line_, m) ==
    IF m[1] = 0 THEN <<>>
    ELSE kanagawa_emit(SubSeq(line_, m[1], m[2]), Split(Strip(Drop(line_, m[2]))))

\* the sightings one pass of the loop body appends for a line
parse_kanagawa_line(line_) ==
    IF kanagawa_skips(line_) THEN <<>>
    ELSE kanagawa_match(line_, date_pattern_search(line_))

-----------------------------------------------------------------------------
(* Harness of the Kanagawa line loop *)

MaxParts     == 7   \* most tokens after the date
MaxPrefixLen == 5   \* longest date text tried

Time1400  == <<"u0031", "u0034", "u003A", "u0030", "u0030">>  \* 14:00
OneBear   == <<"u0031", "u982D">>  \* 1頭
Haikai    == <<"u5F98", "u5F8A">>  \* 徘徊
MaruChiku == <<"u25CB", "u25CB", "u5730", "u533A", "u4ED8", "u8FD1">>  \* ○○地区付近
Maru      == <<"u25CB", "u25CB">>  \* ○○
AreaA     == <<"u0041">>  \* A
Mokugeki  == <<"u76EE", "u6483">>  \* 目撃
Date0619  == <<"u0036", "u6708", "u0031", "u0039", "u65E5">>  \* 6月19日

\* the line of the example: 6月19日 14:00 1頭 徘徊 ○○地区付近 A 目撃
KanagawaExample ==
    Join(<<Date0619, Time1400, OneBear, Haikai, MaruChiku, AreaA, Mokugeki>>)

\* parts joined by sep
RECURSIVE JoinWith(_, _)
JoinWith(parts, sep) ==
    IF parts = <<>> THEN <<>>
    ELSE IF Len(parts) = 1 THEN parts[1]
    ELSE parts[1] \o sep \o JoinWith(Tail(parts), sep)

KanagawaTokens == {MaruChiku, AreaA, Mokugeki}

PrefixChars == {"u0031", "u0033", "u0030", GatsuChar, NichiChar}

KanagawaLines ==
    {Date0619 \o <<SP>> \o JoinWith(parts, sep) :
        parts \in SeqsUpTo(KanagawaTokens, MaxParts), sep \in {<<SP>>, <<SP, SP>>}}
    \cup {prefix \o <<SP>> \o Join(<<Time1400, OneBear, Haikai, MaruChiku, AreaA, Mokugeki>>) :
            prefix \in SeqsUpTo(PrefixChars, MaxPrefixLen)}
    \cup {KanagawaExample,
          HeaderMark \o KanagawaExample,
          KanagawaExample \o <<SP>> \o JoinWith(<<<<"u6708", "u65E5">>, <<"u6642", "u9593">>, <<"u982D", "u6570">>, <<"u72B6", "u6CC1">>, <<"u5834", "u6240", "u7B49">>, <<"u533A", "u5206">>, <<"u76EE", "u6483", "u30FB", "u75D5", "u8DE1">>, <<"u305D", "u306E", "u4ED6">>>>, <<SP>>),
          <<"u0036", "u6708", "u0030", "u65E5">> \o Drop(KanagawaExample, Len(Date0619)),
          <<"u0036", "u6708", "u0034", "u0035", "u65E5">> \o Drop(KanagawaExample, Len(Date0619)),
          <<"u0031", "u0033", "u6708", "u0035", "u65E5">> \o Drop(KanagawaExample, Len(Date0619))}

PendingLine == [st |-> "pending", exc |-> "", val |-> <<>>]

IdleLine == line = <<>> /\ rec_out = PendingLine

InitKanagawaLine ==
    /\ line \in KanagawaLines
    /\ rec_out = PendingLine

ParseKanagawaLine ==
    /\ rec_out.st = "pending"
    /\ rec_out' = Returned(parse_kanagawa_line(line))
    /\ UNCHANGED line

-----------------------------------------------------------------------------
(***************************************************************************)
(* The line loop of parse_yamanashi_pdf                                    *)
(***************************************************************************)

SlashChar == "u002F"  \* /
KoroChar  == "u9803"  \* 頃
Hare      == "u6674"  \* 晴
Ame       == "u96E8"  \* 雨
Kumori    == "u66C7"  \* 曇
Kiri      == "u9727"  \* 霧
Yuki      == "u96EA"  \* 雪
Chinai    == <<"u5730", "u5185">>  \* 地内
Fumei     == <<"u4E0D", "u660E">>  \* 不明

yamanashi_skips(line_) ==
    \/ Strip(line_) = <<>>
    \/ Contains(line_, HeaderMark)

\* \d{1,2} after the second slash at position p: the last position of the
\* day, or 0
ymd_day_end(s, p) ==
    IF ~IsDigit(At(s, p + 1)) THEN 0
    ELSE IF IsDigit(At(s, p + 2)) THEN p + 2 ELSE p + 1

\* \d{1,2}/\d{1,2} from position k on: the last position of the day, or 0
ymd_month_end(s, k) ==
    IF IsDigit(At(s, k)) /\ IsDigit(At(s, k + 1)) /\ At(s, k + 2) = SlashChar
    THEN ymd_day_end(s, k + 2)
    ELSE IF IsDigit(At(s, k)) /\ At(s, k + 1) = SlashChar
    THEN ymd_day_end(s, k + 1)
    ELSE 0

\* the end of the match of \d{4}/\d{1,2}/\d{1,2} that starts at i, or 0
ymd_match_end(s, i) ==
    IF (\A k \in i..(i + 3) : IsDigit(At(s, k))) /\ At(s, i + 4) = SlashChar
    THEN ymd_month_end(s, i + 5)
    ELSE 0

\* date_pattern.search(s) of parse_yamanashi_pdf: <<m.start() + 1, m.end()>>
\* of the leftmost match, <<0, 0>> for None
ymd_search(s) ==
    LET hits == {i \in 1..Len(s) : ymd_match_end(s, i) # 0}
    IN  IF hits = {} THEN <<0, 0>>
        ELSE <<CHOOSE i \in hits : \A j \in hits : i <= j,
               ymd_match_end(s, CHOOSE i \in hits : \A j \in hits : i <= j)>>

\* re.sub(r'頃(?!\s)', '頃 ', s)
RECURSIVE space_after_koro(_)
space_after_koro(s) ==
    IF s = <<>> THEN <<>>
    ELSE IF s[1] = KoroChar /\ At(s, 2) # SP
    THEN <<KoroChar, SP>> \o space_after_koro(Tail(s))
    ELSE <<s[1]>> \o space_after_koro(Tail(s))

\* the positions of text where a run .+[市町村] can end
city_ends(text) == {k \in 2..Len(text) : text[k] \in BoundaryWords}

\* a greedy city_pattern, (.+[市町村])(.*): the last such position, or 0
city_end_greedy(text) ==
    IF city_ends(text) = {} THEN 0
    ELSE CHOOSE k \in city_ends(text) : \A j \in city_ends(text) : j <= k

\* city_pattern.match(text), (.+?[市町村])(.*): the end of group 1, or 0 for None
city_end(text) ==
    IF city_ends(text) = {} THEN 0
    ELSE CHOOSE k \in city_ends(text) : \A j \in city_ends(text) : k <= j

\* the alternatives of (?:晴|雨|曇|霧|雪|地内)
weather_words == {<<Hare>>, <<Ame>>, <<Kumori>>, <<Kiri>>, <<Yuki>>, Chinai}

\* one of them stands at position p of s
weather_at(s, p) ==
    \E w \in weather_words : p + Len(w) - 1 <= Len(s) /\ SubSeq(s, p, p + Len(w) - 1) = w

\* the lengths group 1 of location_pattern, [^晴雨曇]{2,}?, can have
place_ends(full) ==
    {n \in 2..Len(full) :
        /\ \A k \in 1..n : full[k] \notin {Hare, Ame, Kumori}
        /\ weather_at(full, n + 1)}

\* location_pattern.match(full): the end of group 1, or 0 for None
place_end(full) ==
    IF place_ends(full) = {} THEN 0
    ELSE CHOOSE n \in place_ends(full) : \A j \in place_ends(full) : n <= j

\* location_full.split()[0] if location_full.split() else location_full
first_word(full) == IF Split(full) # <<>> THEN Split(full)[1] ELSE full

\* the place taken from location_full
yamanashi_location(full) ==
    IF place_end(full) # 0 THEN Strip(Take(full, place_end(full)))
    ELSE first_word(full)

\* <<city, location>> for the tokens and the rejoined text after the time
yamanashi_city_location(parts, remaining_text) ==
    IF city_end(remaining_text) # 0
    THEN <<Take(remaining_text, city_end(remaining_text)),
           yamanashi_location(Strip(Drop(remaining_text, city_end(remaining_text))))>>
    ELSE <<parts[2], parts[3]>>

\* re.sub(r'\D', '', x)
only_digits(x) == SelectSeq(x, IsDigit)

\* the digits of the last token that has a digit, 不明 without one
bear_count(remaining) ==
    LET nums == SelectSeq(remaining, LAMBDA x : \E i \in 1..Len(x) : IsDigit(x[i]))
    IN  IF nums = <<>> THEN Fumei ELSE only_digits(nums[Len(nums)])

\* the dictionary appended to sightings
yamanashi_sighting(date, parts, city_location) ==
    [date |-> date,
     time |-> parts[1],
     city |-> city_location[1],
     location |-> city_location[2],
     bear_count |-> bear_count(Drop(parts, 3))]

\* if len(parts) < 3: continue
yamanashi_emit(date, parts) ==
    IF Len(parts) < 3 THEN <<>>
    ELSE <<yamanashi_sighting(date, parts,
                              yamanashi_city_location(parts, Join(Tail(parts))))>>

\* the loop body from the search on, for the match m
yamanashi_match(line_, m) ==
    IF m[1] = 0 THEN <<>>
    ELSE yamanashi_emit(SubSeq(line_, m[1], m[2]),
                        Split(space_after_koro(Strip(Drop(line_, m[2])))))

\* the sightings one pass of the loop body appends for a line
parse_yamanashi_line(line_) ==
    IF yamanashi_skips(line_) THEN <<>>
    ELSE yamanashi_match(line_, ymd_search(line_))

-----------------------------------------------------------------------------
(* Harness of the Yamanashi line loop *)

MaxRestLen == 6     \* longest text tried after the time

MaruChar   == "u25CB"  \* ○
Date240604 == <<"u0032", "u0030", "u0032", "u0034", "u002F", "u0036", "u002F", "u0034">>  \* 2024/6/4
Time14Koro == <<"u0031", "u0034", "u003A", "u0030", "u0030", "u9803">>  \* 14:00頃
MaruMachi  == <<"u25CB", "u25CB", "u753A">>  \* ○○町

\* 2024/6/4 14:00頃 甲府市 ○○町地内 晴れ 2頭
YamanashiExample == <<"u0032", "u0030", "u0032", "u0034", "u002F", "u0036", "u002F", "u0034", "u0020", "u0031", "u0034", "u003A", "u0030", "u0030", "u9803", "u0020", "u7532", "u5E9C", "u5E02", "u0020", "u25CB", "u25CB", "u753A", "u5730", "u5185", "u0020", "u6674", "u308C", "u0020", "u0032", "u982D">>

RestChars == {SP, Shi, Hare, "u5730", "u5185", MaruChar}

YamanashiLines ==
    {Date240604 \o <<SP>> \o Time14Koro \o <<SP>> \o rest :
        rest \in SeqsUpTo(RestChars, MaxRestLen)}
    \cup {YamanashiExample,
          HeaderMark \o YamanashiExample,
          Drop(YamanashiExample, 1),
          <<"u0032", "u0030", "u0032", "u0034", "u002F", "u0036", "u002F", "u0034", "u0020", "u0031", "u0034", "u003A", "u0030", "u0030", "u9803", "u7532", "u5E9C", "u5E02", "u4E0A", "u5E2F", "u90A3", "u753A", "u0020", "u96E8", "u0020", "u0031", "u982D">>,
          <<"u0032", "u0030", "u0032", "u0034", "u002F", "u0036", "u002F", "u0034", "u0020", "u0031", "u0034", "u003A", "u0030", "u0030", "u9803", "u0020", "u7532", "u5E9C", "u5E02", "u0020", "u9727", "u30F6", "u5CF0", "u0020", "u6674", "u308C", "u0020", "u0031", "u982D">>,
          <<"u0032", "u0030", "u0032", "u0034", "u002F", "u0031", "u0032", "u002F", "u0032", "u0034", "u0020", "u0039", "u003A", "u0030", "u0030", "u9803", "u0020", "u5F79", "u5834", "u0020", "u524D", "u0020", "u0033", "u982D">>}

InitYamanashiLine ==
    /\ line \in YamanashiLines
    /\ rec_out = PendingLine

ParseYamanashiLine ==
    /\ rec_out.st = "pending"
    /\ rec_out' = Returned(parse_yamanashi_line(line))
    /\ UNCHANGED line

-----------------------------------------------------------------------------
(***************************************************************************)
(* The three parse steps of main as parallel tasks: each task opens its    *)
(* PDF and extracts the sightings, then dumps its JSON file; main goes on  *)
(* to combine_json_data when the three have completed.                     *)
(***************************************************************************)

NotRead == [st |-> "none", sightings |-> <<>>]

IdlePar ==
    /\ tpc = [s \in Sources |-> "idle"]
    /\ tbuf = [s \in Sources |-> NotRead]
    /\ json0 = [s \in Sources |-> NoJson]

\* main has downloaded the PDFs and starts the three tasks
fork ==
    /\ pc = "parse_kanagawa"
    /\ pc' = "join"
    /\ tpc' = [s \in Sources |-> "open"]
    /\ tbuf' = [s \in Sources |-> NotRead]
    /\ json0' = json
    /\ hist' = [hist EXCEPT !.completed = <<>>]
    /\ UNCHANGED <<run, pdf, json, yaml, combined, df, final>>

\* a task opens its PDF and runs the line loop
task_open(s) ==
    /\ pc = "join"
    /\ tpc[s] = "open"
    /\ tbuf' = [tbuf EXCEPT ![s] = pdf[s]]
    /\ tpc' = [tpc EXCEPT ![s] = "dump"]
    /\ UNCHANGED <<rvars, json0>>

\* a task writes its JSON file, or prints the exception, and completes
task_dump(s) ==
    /\ pc = "join"
    /\ tpc[s] = "dump"
    /\ json' = json_dump(json, s, tbuf[s])
    /\ tpc' = [tpc EXCEPT ![s] = "done"]
    /\ hist' = [hist EXCEPT !.completed = Append(@, s)]
    /\ UNCHANGED <<pc, run, pdf, yaml, combined, df, final, tbuf, json0>>

\* the three tasks have completed
join ==
    /\ pc = "join"
    /\ \A s \in Sources : tpc[s] = "done"
    /\ pc' = "combine"
    /\ UNCHANGED <<run, pdf, json, yaml, combined, df, final, hist, pvars>>

\* the JSON files after parse_kanagawa_pdf, parse_yamanashi_pdf and
\* parse_shizuoka_pdf have run one after the other
sequential_json(json_, pdf_) ==
    json_dump(json_dump(json_dump(json_, "kanagawa", pdf_["kanagawa"]),
                        "yamanashi", pdf_["yamanashi"]),
              "shizuoka", pdf_["shizuoka"])

\*SPECS
-----------------------------------------------------------------------------
(* Specifications *)

NextDate == ConvertDate /\ UNCHANGED <<cvars, lvars, rvars, pvars, kvars>>

SpecDateInit == InitDate /\ IdleClean /\ IdleLookup /\ IdleRun /\ IdlePar /\ IdleLine

SpecDate == SpecDateInit /\ [][NextDate]_vars

NextClean ==
    \/ CleanOnce /\ UNCHANGED <<dvars, lvars, rvars, pvars, kvars>>
    \/ CleanTwice /\ UNCHANGED <<dvars, lvars, rvars, pvars, kvars>>

SpecCleanInit == InitClean /\ IdleDate /\ IdleLookup /\ IdleRun /\ IdlePar /\ IdleLine

SpecClean == SpecCleanInit /\ [][NextClean]_vars

NextLookup ==
    \/ LookupCoords /\ UNCHANGED <<dvars, cvars, rvars, pvars, kvars>>
    \/ GeocodeRow /\ UNCHANGED <<dvars, cvars, rvars, pvars, kvars>>

SpecLookupInit == InitLookup /\ IdleDate /\ IdleClean /\ IdleRun /\ IdlePar /\ IdleLine

SpecLookup == SpecLookupInit /\ [][NextLookup]_vars

SpecGeocodeInit == InitGeocode /\ IdleDate /\ IdleClean /\ IdleRun /\ IdlePar /\ IdleLine

SpecGeocode == SpecGeocodeInit /\ [][NextLookup]_vars

NextRun ==
    \/ scrape_pdfs /\ UNCHANGED <<dvars, cvars, lvars, pvars, kvars>>
    \/ parse_kanagawa_pdf /\ UNCHANGED <<dvars, cvars, lvars, pvars, kvars>>
    \/ parse_yamanashi_pdf /\ UNCHANGED <<dvars, cvars, lvars, pvars, kvars>>
    \/ parse_shizuoka_pdf /\ UNCHANGED <<dvars, cvars, lvars, pvars, kvars>>
    \/ combine_json_data /\ UNCHANGED <<dvars, cvars, lvars, pvars, kvars>>
    \/ geocode /\ UNCHANGED <<dvars, cvars, lvars, pvars, kvars>>
    \/ open_final /\ UNCHANGED <<dvars, cvars, lvars, pvars, kvars>>
    \/ write_final /\ UNCHANGED <<dvars, cvars, lvars, pvars, kvars>>
    \/ close_final /\ UNCHANGED <<dvars, cvars, lvars, pvars, kvars>>
    \/ exit_main /\ UNCHANGED <<dvars, cvars, lvars, pvars, kvars>>
    \/ crash_in_write /\ UNCHANGED <<dvars, cvars, lvars, pvars, kvars>>

SpecRunInit == InitRun /\ IdleDate /\ IdleClean /\ IdleLookup /\ IdlePar /\ IdleLine

SpecRun == SpecRunInit /\ [][NextRun]_vars

NextPar ==
    \/ scrape_pdfs /\ UNCHANGED <<dvars, cvars, lvars, pvars, kvars>>
    \/ fork /\ UNCHANGED <<dvars, cvars, lvars, kvars>>
    \/ \E s \in Sources : task_open(s) /\ UNCHANGED <<dvars, cvars, lvars, kvars>>
    \/ \E s \in Sources : task_dump(s) /\ UNCHANGED <<dvars, cvars, lvars, kvars>>
    \/ join /\ UNCHANGED <<dvars, cvars, lvars, kvars>>
    \/ combine_json_data /\ UNCHANGED <<dvars, cvars, lvars, pvars, kvars>>
    \/ geocode /\ UNCHANGED <<dvars, cvars, lvars, pvars, kvars>>
    \/ open_final /\ UNCHANGED <<dvars, cvars, lvars, pvars, kvars>>
    \/ write_final /\ UNCHANGED <<dvars, cvars, lvars, pvars, kvars>>
    \/ close_final /\ UNCHANGED <<dvars, cvars, lvars, pvars, kvars>>
    \/ exit_main /\ UNCHANGED <<dvars, cvars, lvars, pvars, kvars>>

SpecParInit == IdleRun /\ IdleDate /\ IdleClean /\ IdleLookup /\ IdlePar /\ IdleLine

SpecPar == SpecParInit /\ [][NextPar]_vars

NextKanagawaLine == ParseKanagawaLine /\ UNCHANGED <<dvars, cvars, lvars, rvars, pvars>>

SpecKanagawaLineInit ==
    InitKanagawaLine /\ IdleDate /\ IdleClean /\ IdleLookup /\ IdleRun /\ IdlePar

SpecKanagawaLine == SpecKanagawaLineInit /\ [][NextKanagawaLine]_vars

NextYamanashiLine == ParseYamanashiLine /\ UNCHANGED <<dvars, cvars, lvars, rvars, pvars>>

SpecYamanashiLineInit ==
    InitYamanashiLine /\ IdleDate /\ IdleClean /\ IdleLookup /\ IdleRun /\ IdlePar

SpecYamanashiLine == SpecYamanashiLineInit /\ [][NextYamanashiLine]_vars

-----------------------------------------------------------------------------
(* Properties *)

RowFields == {"prefecture", "date", "city", "location", "longitude", "latitude"}

\* the dictionary has an entry for (p, c, a)
HasEntry(d, p, c, a) ==
    /\ d.kind = "map" /\ p \in DOMAIN d.items
    /\ d.items[p].kind = "map" /\ c \in DOMAIN d.items[p].items
    /\ d.items[p].items[c].kind = "map" /\ a \in DOMAIN d.items[p].items[c].items

Entry(d, p, c, a) == d.items[p].items[c].items[a]

\* C1: at every moment the final CSV a reader can open is either the last
\* completely written dataset or the complete dataset of the current run,
\* never a partly written file.
C1_FinalDatasetAtomic ==
    \/ final = hist.last_complete
    \/ pc \in {"write_final", "done"} /\ final = CsvFile(df)

\* C2: when a run completes, a source whose PDF was absent or unreadable in
\* that run has no record in the final dataset of that run.
C2_UnavailableSourceContributesNothing ==
    pc = "done" =>
        \A s \in hist.unavailable :
            \A i \in 1..Len(final.rows) : final.rows[i].prefecture # Prefecture(s)

\* C3: lookup_coords returns the exact entry when the dictionary has one (also
\* when a sentinel entry exists), else the sentinel entry when the dictionary
\* has one, else null longitude and latitude.
C3_FallbackOrder ==
    lk_out.st # "pending" =>
        LET p == row.prefecture
            c == row.city
            a == row.location
        IN  /\ lk_out.st = "returned"
            /\ HasEntry(geo_dict, p, c, a) => lk_out.val = Entry(geo_dict, p, c, a)
            /\ ~HasEntry(geo_dict, p, c, a) /\ HasEntry(geo_dict, p, c, Sentinel)
                  => lk_out.val = Entry(geo_dict, p, c, Sentinel)
            /\ ~HasEntry(geo_dict, p, c, a) /\ ~HasEntry(geo_dict, p, c, Sentinel)
                  => /\ lk_out.val.items[LonKey] = None
                     /\ lk_out.val.items[LatKey] = None

\* C3 witness: an exact entry and a different sentinel entry exist, and the
\* lookup has returned the exact one.
C3_Witness ==
    /\ lk_out.st = "returned"
    /\ HasEntry(geo_dict, row.prefecture, row.city, row.location)
    /\ HasEntry(geo_dict, row.prefecture, row.city, Sentinel)
    /\ Entry(geo_dict, row.prefecture, row.city, Sentinel)
         # Entry(geo_dict, row.prefecture, row.city, row.location)
    /\ lk_out.val = Entry(geo_dict, row.prefecture, row.city, row.location)

\* C4: neither lookup_coords nor the per-record geocode step raises, whatever
\* the record and whatever value the configuration file loaded to.
C4_LookupNeverRaises == lk_out.st # "raised" /\ row_out.st # "raised"

\* C5: when the geocode configuration is missing or does not parse, the run is
\* not aborted, and the final dataset it writes holds every record of the
\* combined dataset, in the same order, with null longitude and latitude.
C5_MissingConfigDegrades ==
    yaml.st \in {"missing", "corrupt"} =>
        /\ pc # "aborted"
        /\ pc \in {"open_final", "write_final", "done"} =>
              /\ Len(df) = Len(combined.rows)
              /\ \A i \in 1..Len(df) :
                    /\ df[i].prefecture = combined.rows[i].prefecture
                    /\ df[i].date = combined.rows[i].date
                    /\ df[i].city = combined.rows[i].city
                    /\ df[i].location = combined.rows[i].location
                    /\ df[i].longitude = None
                    /\ df[i].latitude = None
        /\ pc = "done" => final = CsvFile(df)

\* C5 witness: a run with an unparsable configuration has completed and has
\* written a final dataset of at least two records.
C5_Witness ==
    /\ pc = "done"
    /\ yaml.st = "corrupt"
    /\ final.header
    /\ Len(final.rows) >= 2

\* the dictionary has no entry at all for the region
RegionEmpty(d, p) ==
    /\ d.kind = "map"
    /\ \/ p \notin DOMAIN d.items
       \/ d.items[p].kind = "null"
       \/ d.items[p].kind = "map" /\ DOMAIN d.items[p].items = {}

\* C6: with a dictionary that has no entry for Shizuoka, every Shizuoka record
\* of the final dataset has null coordinates, and every record of another
\* region whose exact or sentinel entry exists has that entry's coordinates.
C6_RegionIsolation ==
    pc = "done" /\ yaml.st = "ok" /\ RegionEmpty(yaml.value, Shizuoka) =>
        \A i \in 1..Len(final.rows) :
            LET r       == final.rows[i]
                cleaned == clean_address(r.city, r.location)
                c       == fix_city_name(r.prefecture, cleaned[1])
                a       == IF HasEntry(yaml.value, r.prefecture, c, cleaned[2])
                           THEN cleaned[2] ELSE Sentinel
            IN  /\ r.prefecture = Shizuoka =>
                      r.longitude = None /\ r.latitude = None
                /\ r.prefecture # Shizuoka /\ HasEntry(yaml.value, r.prefecture, c, a) =>
                      /\ r.longitude = Entry(yaml.value, r.prefecture, c, a).items[LonKey]
                      /\ r.latitude = Entry(yaml.value, r.prefecture, c, a).items[LatKey]

\* C7: after the Geocode Stage the table holds exactly the records it was
\* given, in the same order, with region, date, locality and place as they
\* were, and with the two coordinate fields added; none is dropped.
C7_GeocodeRetainsRecords ==
    pc \in {"open_final", "write_final", "done"} =>
        /\ Len(df) = Len(combined.rows)
        /\ \A i \in 1..Len(df) :
              /\ DOMAIN df[i] = RowFields
              /\ df[i].prefecture = combined.rows[i].prefecture
              /\ df[i].date = combined.rows[i].date
              /\ df[i].city = combined.rows[i].city
              /\ df[i].location = combined.rows[i].location

\* C7 witness: the stage has run with a loaded dictionary on a table in which
\* one record got coordinates, one got none, and the cleaner changes the
\* address of one.
C7_Witness ==
    /\ pc = "open_final"
    /\ yaml.st = "ok"
    /\ \E i \in 1..Len(df) : df[i].longitude # None
    /\ \E i \in 1..Len(df) : df[i].longitude = None
    /\ \E i \in 1..Len(df) :
          clean_address(df[i].city, df[i].location) # <<df[i].city, df[i].location>>

\* C8: cleaning the result of clean_address again changes nothing.
C8_CleanIdempotent == addr_twice # <<>> => addr_twice = addr_once

ValidDate(d) == ValidYMD(d[1], d[2], d[3])

C10_RoundTripAnyYear ==
    date_out.st # "pending" =>
        /\ \A y \in Years, m \in 1..12, d \in 1..31 :
              ValidYMD(y, m, d) /\ date_str = SlashForm(y, m, d)
                  => date_out = Returned(<<y, m, d>>)
        /\ \A m \in 1..12, d \in 1..31 :
              ValidYMD(2024, m, d) /\ date_str = MonthDayForm(m, d)
                  => date_out \in convert_date(SlashForm(2024, m, d))

\* C10 amended: convert_date of "Y/M/D" is the date Y-M-D for every valid
\* (Y, M, D) with a four-digit year that pd.Timestamp can represent
\* (1677-09-22 to 2262-04-11), and convert_date of "M月D日" is convert_date of
\* "2024/M/D", the date 2024-M-D, for every (M, D) valid in 2024.
C10_RoundTripInRange ==
    date_out.st # "pending" =>
        /\ \A y \in Years, m \in 1..12, d \in 1..31 :
              /\ ValidYMD(y, m, d) /\ date_str = SlashForm(y, m, d)
              /\ InTimestampRange(<<y, m, d>>)
              => date_out = Returned(<<y, m, d>>)
        /\ \A m \in 1..12, d \in 1..31 :
              ValidYMD(2024, m, d) /\ date_str = MonthDayForm(m, d)
                  => /\ date_out \in convert_date(SlashForm(2024, m, d))
                     /\ date_out = Returned(<<2024, m, d>>)

\* C10 witness: convert_date has returned 29 February of the assumed year for
\* the month-day fragment.
C10_Witness == date_str = MonthDayForm(2, 29) /\ date_out = Returned(<<2024, 2, 29>>)


\* the concatenation of combine_json_data as the CSV holds its records
Concatenation == [i \in 1..Len(normalized_data(json)) |-> csv_row(normalized_data(json)[i])]

\* the records of a table that carry the date d, in the order of the table
WithDate(rows, d) == SelectSeq(rows, LAMBDA r : r.date = d)

\* C11: the records of the sorted output of combine_json_data that have the
\* same date stand in the order they had in the concatenation (Kanagawa, then
\* Shizuoka, then Yamanashi).
C11_StableSort ==
    pc = "geocode" =>
        \A i \in 1..Len(combined.rows) :
            WithDate(combined.rows, combined.rows[i].date)
                = WithDate(Concatenation, combined.rows[i].date)

\* no record stands before a record that sort_values orders before it
OrderedByDate(rows) ==
    \A i, j \in 1..Len(rows) : i < j => ~DateBefore(rows[j].date, rows[i].date)

\* C12: the records of the final dataset with a date stand in non-decreasing
\* date order, every record with NaT stands after all of them, and the sort
\* has a result whatever the dates are.
C12_OrderedByDate ==
    /\ pc = "combine" => sort_values(normalized_data(json)) # {}
    /\ pc = "geocode" => OrderedByDate(combined.rows)
    /\ pc = "done" => OrderedByDate(final.rows)

\* C12 witness: a run has written a final dataset in which a record with NaT,
\* first in the concatenation, stands last, after records of two dates.
C12_Witness ==
    /\ pc = "done"
    /\ Len(final.rows) >= 3
    /\ Concatenation[1].date = NaT
    /\ final.rows[Len(final.rows)].date = NaT
    /\ final.rows[1].date # NaT
    /\ DateLess(final.rows[1].date, final.rows[2].date)

Regions == {Kanagawa, Shizuoka, Yamanashi}

\* the fragment matches a grammar of convert_date
MatchesGrammar(fragment) ==
    \/ Slash \in Range(fragment)
    \/ Gatsu \in Range(fragment) /\ Nichi \in Range(fragment)

\* region, locality and place of a record as the claim wants them
WellFormedRecord(r) ==
    /\ r.prefecture \in Regions
    /\ ~isna(r.city)
    /\ ~isna(r.location)

\* C13: every record the Record Normalizer produces has one of the three
\* regions, a locality and a place that are strings and never null, and NaT as
\* its date only when its fragment matches neither grammar of convert_date.
C13_CanonicalRecord ==
    /\ \A i \in 1..Len(normalized_data(json)) : WellFormedRecord(normalized_data(json)[i])
    /\ \A i \in 1..Len(load_json(json["kanagawa"])) :
          DateOf(load_json(json["kanagawa"])[i].date) = NaT
              => ~MatchesGrammar(load_json(json["kanagawa"])[i].date)

\* C14: when the three parse steps run as parallel tasks, in any interleaving,
\* the JSON files at the join are those of the sequential run, whatever files
\* earlier runs left, and the dataset combine_json_data emits is one the
\* sequential run can emit.
C14_ParallelParseSameOutput ==
    /\ pc = "combine" => json = sequential_json(json0, pdf)
    /\ pc = "geocode" => combined \in Emitted(sequential_json(json0, pdf))

\* C14 witness: in a second run, tasks completed in another order than the
\* sequential one (Shizuoka before Kanagawa), one PDF was unreadable and its
\* JSON file of the first run is still there, and the dataset is emitted.
C14_Witness ==
    /\ pc = "geocode"
    /\ run = 2
    /\ hist.completed = <<"shizuoka", "yamanashi", "kanagawa">>
    /\ pdf["yamanashi"].st = "corrupt"
    /\ json["yamanashi"].exists
    /\ pdf["kanagawa"].st = "ok" /\ pdf["shizuoka"].st = "ok"
    /\ json0["kanagawa"] # json["kanagawa"]
    /\ Len(combined.rows) >= 3

\* the positions where a whitespace-delimited word of s starts
WordStarts(s) == {i \in 1..Len(s) : s[i] # SP /\ (i = 1 \/ s[i - 1] = SP)}

\* the position where the word that starts at i ends
WordEnd(s, i) ==
    CHOOSE j \in i..Len(s) :
        /\ \A k \in i..j : s[k] # SP
        /\ j = Len(s) \/ s[j + 1] = SP

\* the n-th word of s
Word(s, n) ==
    LET i == CHOOSE k \in WordStarts(s) : Cardinality({j \in WordStarts(s) : j < k}) = n - 1
    IN  SubSeq(s, i, WordEnd(s, i))

\* the whitespace-delimited words of s, in order
Words(s) == [n \in 1..Cardinality(WordStarts(s)) |-> Word(s, n)]

\* words separated by exactly one space, none before the first or after the last
SingleSpaced(s) ==
    \A i \in 1..Len(s) : s[i] = SP => i # 1 /\ i # Len(s) /\ s[i + 1] # SP

\* the place of a Kanagawa sighting after the Record Normalizer, the CSV and
\* the Address Cleaner
KanagawaCleaned(location) ==
    clean_address(csv_cell(parse_kanagawa_location(location)[1]),
                  csv_cell(parse_kanagawa_location(location)[2]))[2]

\* the fields of the record r for the tokens that follow the date
FieldsAssigned(r, parts) ==
    /\ r.time = parts[1]
    /\ r.number_of_bears = parts[2]
    /\ r.status = parts[3]
    /\ r.area_type = parts[Len(parts) - 1]
    /\ r.observation_type = parts[Len(parts)]
    /\ Words(r.location) = SubSeq(parts, 4, Len(parts) - 2)
    /\ SingleSpaced(r.location)

\* the record, if any, emitted for the tokens that follow the date
EmittedFor(recs, parts) ==
    IF Len(parts) >= 5
    THEN Len(recs) = 1 /\ FieldsAssigned(recs[1], parts)
    ELSE recs = <<>>

\* C15: for a line that is not skipped and has a date match, the Kanagawa
\* parser emits a record exactly when at least 5 whitespace-delimited tokens
\* follow the date; then time, head count and status are tokens 0, 1 and 2,
\* area type and observation type are the last two tokens, and the place is
\* the tokens in between joined by single spaces (empty if none).  The place
\* ○○地区付近 of the example line is cleaned to ○○.
C15_KanagawaFields ==
    rec_out.st = "returned" /\ ~kanagawa_skips(line) /\ date_pattern_search(line)[1] # 0 =>
        /\ EmittedFor(rec_out.val, Words(Drop(line, date_pattern_search(line)[2])))
        /\ line = KanagawaExample =>
              /\ rec_out.val[1].location = MaruChiku
              /\ KanagawaCleaned(rec_out.val[1].location) = Maru

\* C15 witness: the parser has emitted a record with a place of two tokens for
\* a line of seven tokens after the date.
C15_Witness ==
    /\ rec_out.st = "returned"
    /\ line = Date0619 \o <<SP>>
                \o Join(<<AreaA, AreaA, AreaA, MaruChiku, Mokugeki, AreaA, Mokugeki>>)
    /\ Len(rec_out.val) = 1
    /\ rec_out.val[1].location = MaruChiku \o <<SP>> \o Mokugeki

DigitSeq == <<"u0030", "u0031", "u0032", "u0033", "u0034",
              "u0035", "u0036", "u0037", "u0038", "u0039">>

DigitVal(c) == (CHOOSE d \in 1..10 : DigitSeq[d] = c) - 1

\* the number a run of digits writes
RECURSIVE NumVal(_)
NumVal(digits) ==
    IF digits = <<>> THEN 0
    ELSE 10 * NumVal(Take(digits, Len(digits) - 1)) + DigitVal(digits[Len(digits)])

\* s[i..j] is a run of digits
DigitRun(s, i, j) == i <= j /\ \A k \in i..j : IsDigit(s[k])

\* s[i..b+1] is a month-day text: a whole run of digits i..a, 月, a run of
\* digits a+2..b, 日
MonthDayAt(s, i, a, b) ==
    /\ DigitRun(s, i, a) /\ ~IsDigit(At(s, i - 1))
    /\ At(s, a + 1) = GatsuChar
    /\ DigitRun(s, a + 2, b)
    /\ At(s, b + 1) = NichiChar

\* C16: the Kanagawa parser emits a record for a line only if the line has a
\* date text M月D日 with month 1..12 and day 1..31, and the date of the record
\* is that text.
C16_KanagawaDateGrammar ==
    rec_out.st = "returned" /\ rec_out.val # <<>> =>
        \E a \in {k \in 1..Len(line) : At(line, k + 1) = GatsuChar} :
            \E i \in 1..a, b \in (a + 2)..(a + 3) :
                /\ MonthDayAt(line, i, a, b)
                /\ NumVal(SubSeq(line, i, a)) \in 1..12
                /\ NumVal(SubSeq(line, a + 2, b)) \in 1..31
                /\ rec_out.val[1].date = SubSeq(line, i, b + 1)

\* the tokens that follow the date of a Yamanashi line
YamanashiParts == Words(space_after_koro(Drop(line, ymd_search(line)[2])))

\* the rejoined tokens from index 1 on
YamanashiRest == Join(Tail(YamanashiParts))

\* a record has been emitted for a line with a date and at least 3 tokens
YamanashiEmitted ==
    /\ rec_out.st = "returned"
    /\ ~yamanashi_skips(line)
    /\ ymd_search(line)[1] # 0
    /\ Len(YamanashiParts) >= 3

\* the leading runs of text that end in 市, 町 or 村, by their length
SuffixRuns(text, least) == {k \in least..Len(text) : text[k] \in {Shi, Machi, Mura}}

Longest(runs) == CHOOSE k \in runs : \A j \in runs : j <= k

Shortest(runs) == CHOOSE k \in runs : \A j \in runs : k <= j

\* the record has the first k characters of the rejoined text as its locality
\* and its place taken from the rest
SplitAt(r, text, k) ==
    /\ r.city = Take(text, k)
    /\ r.location = yamanashi_location(Strip(Drop(text, k)))

\* C17 as stated: the locality is the longest leading run of the rejoined
\* tokens that ends in 市, 町 or 村 and the raw place is the remainder; without
\* such a run the locality is token 1 and the place token 2.
C17_LongestLocality ==
    YamanashiEmitted =>
        /\ Len(rec_out.val) = 1
        /\ IF SuffixRuns(YamanashiRest, 1) # {}
           THEN SplitAt(rec_out.val[1], YamanashiRest, Longest(SuffixRuns(YamanashiRest, 1)))
           ELSE /\ rec_out.val[1].city = YamanashiParts[2]
                /\ rec_out.val[1].location = YamanashiParts[3]

\* C17 amended: the locality is the shortest leading run of at least two
\* characters of the rejoined tokens that ends in 市, 町 or 村 and the raw place
\* is the remainder; when none of 市, 町, 村 stands after the first character
\* the locality is token 1 and the place token 2.
C17_ShortestLocality ==
    YamanashiEmitted =>
        /\ Len(rec_out.val) = 1
        /\ IF SuffixRuns(YamanashiRest, 2) # {}
           THEN SplitAt(rec_out.val[1], YamanashiRest, Shortest(SuffixRuns(YamanashiRest, 2)))
           ELSE /\ rec_out.val[1].city = YamanashiParts[2]
                /\ rec_out.val[1].location = YamanashiParts[3]

\* C17 witness: of two runs ending in 市 the parser has taken the shorter as
\* the locality, the second 市 being left in the place.
C17_Witness ==
    /\ YamanashiEmitted
    /\ Cardinality(SuffixRuns(YamanashiRest, 2)) = 2
    /\ rec_out.val[1].city = <<MaruChar, Shi>>
    /\ rec_out.val[1].location = <<MaruChar, Shi>>

\* the raw place of an emitted record whose locality was split off
RawPlace == Strip(Drop(YamanashiRest, Shortest(SuffixRuns(YamanashiRest, 2))))

\* where the six markers first occur in text
MarkerStarts(text) ==
    {Find(text, w) : w \in {v \in {<<Hare>>, <<Ame>>, <<Kumori>>, <<Kiri>>, <<Yuki>>, Chinai} :
                               Contains(text, v)}}

\* the place the claim gives for a raw place
PlaceBeforeMarker(raw) ==
    IF MarkerStarts(raw) # {}
    THEN Strip(Take(raw, Shortest(MarkerStarts(raw)) - 1))
    ELSE IF Words(raw) # <<>> THEN Words(raw)[1] ELSE raw

\* C18: the place of a Yamanashi record is the raw place up to the first of
\* the markers 晴, 雨, 曇, 霧, 雪, 地内, trimmed, when the raw place has one, and
\* the first word of the raw place (or all of it) when it has none.
C18_PlaceBeforeWeather ==
    YamanashiEmitted /\ SuffixRuns(YamanashiRest, 2) # {} =>
        rec_out.val[1].location = PlaceBeforeMarker(RawPlace)

\* the example line of C18 gives 甲府市, ○○町 and 2
C18_Example ==
    rec_out.st = "returned" /\ line = YamanashiExample =>
        /\ rec_out.val[1].city = Kofu
        /\ rec_out.val[1].location = MaruMachi
        /\ rec_out.val[1].bear_count = <<"u0032">>

=============================================================================
